---- MODULE Spec2Model ----
(***************************************************************************)
(* Model of packages/database/src/models/access_control.ts                 *)
(* (class AccessControlDAL): session tokens and the request-timestamp      *)
(* rate limiter, both kept in a Redis store.                                *)
(*                                                                         *)
(* Strings are sequences of one-character strings.  Time is in             *)
(* milliseconds (Date.now()); the clock moves in whole hours.  Every       *)
(* `await redis.*` of the source is one atomic step of the store, and a    *)
(* call is suspended between two of its store steps, so calls interleave   *)
(* at exactly the points where the source awaits.                          *)
(***************************************************************************)
EXTENDS Integers, Sequences, FiniteSets, Bags, TLC

\* ------------------------------------------------------------------ bounds
MaxInflight == 2      \* calls suspended at a store call at the same time
MaxTicks == 3         \* clock advances in one behaviour
MaxSessions == 2      \* newSessionToken calls that write a record
AllTicks == 1         \* clock advances in a behaviour of the whole component

\* ------------------------------------------------------------------ values
None == <<>>                      \* null / nothing
Some(v) == <<v>>

Hour == 60 * 60 * 1000
StartTime == 3 * Hour             \* Date.now() at the start (an epoch offset)

EmailA == <<"a", "@", "x">>
EmailB == <<"b", "@", "x">>
IPAddr == <<"1", ".", "2">>
Emails == {EmailA, EmailB}
Identities == Emails \cup {IPAddr}

\* ----------------------------------------------------------- pure helpers
\* String.prototype.includes for a one-character needle
includes(s, c) == \E i \in DOMAIN s : s[i] = c

\* constructor default: isIP = !emailOrIP.includes('@')
isIPMutant(emailOrIP) == includes(emailOrIP, "@")
isIP(emailOrIP) == ~includes(emailOrIP, "@")

IsSpace(c) == c \in {" ", "\t", "\n"}

RECURSIVE trimStart(_)
trimStart(s) ==
  IF s # <<>> /\ IsSpace(Head(s)) THEN trimStart(Tail(s)) ELSE s

RECURSIVE trimEnd(_)
trimEnd(s) ==
  IF s # <<>> /\ IsSpace(s[Len(s)]) THEN trimEnd(SubSeq(s, 1, Len(s) - 1)) ELSE s

\* String.prototype.trim
trim(s) == trimEnd(trimStart(s))

Digits == <<"0", "1", "2", "3", "4", "5", "6", "7", "8", "9">>
HexDigits == Digits \o <<"a", "b", "c", "d", "e", "f">>

RECURSIVE Decimal(_)
Decimal(n) ==
  IF n < 10 THEN <<Digits[n + 1]>> ELSE Decimal(n \div 10) \o <<Digits[(n % 10) + 1]>>

\* `${new Date()}`: the date's text, which has a resolution of one second
DateString(ms) == Decimal(ms \div 1000)

CharSet == <<"0", "1", "2", "3", "4", "5", "6", "7", "8", "9",
             "a", "b", "x", "z", "@", ".", ":", " ", "\t", "\n">>
CharCode(c) == CHOOSE i \in DOMAIN CharSet : CharSet[i] = c

RECURSIVE Digest(_, _)
Digest(s, h) ==
  IF s = <<>> THEN h ELSE Digest(Tail(s), (h * 31 + CharCode(Head(s))) % 65536)

Hex4(n) == << HexDigits[(n \div 4096) + 1], HexDigits[((n \div 256) % 16) + 1],
              HexDigits[((n \div 16) % 16) + 1], HexDigits[(n % 16) + 1] >>

\* md5.hash(s): a digest of the text, rendered in hexadecimal
md5hash(s) == Hex4(Digest(s, 7))

SessionPrefix == <<"s", "e", "s", "s", "i", "o", "n", "T", "o", "k", "e", "n", ":">>
LimitPrefix == <<"l", "i", "m", "i", "t", ":">>
SessionKey(token) == SessionPrefix \o token
LimitKeyMutant(emailOrIP) == LimitPrefix
LimitKey(emailOrIP) == LimitPrefix \o emailOrIP

\* ------------------------------------------------------------------- state
VARIABLES
  now,        \* the clock, Date.now(), in ms
  ticks,      \* clock advances so far
  nSessions,  \* newSessionToken calls that went to the store so far
  redis,      \* the store: key -> [type, value, expireAt]
  inflight,   \* bag of the calls suspended at a store call
  last,       \* the call that returns in this step, with its result (or NoCall)
  issuedTo,   \* history: token -> identity whose newSessionToken returned it
  touched,    \* history: token -> time its record's TTL was last set
  clean,      \* history: token -> a call returned it and no revocation since that call began
  revoked,    \* history: tokens whose record was marked revoked in the store
  sinceEmpty, \* history: identity -> timestamps inserted since its set was last cleared
  prunedTo,   \* history: identity -> highest score bound pruned since then
  resetDone   \* history: identity whose resetLimit returned -> members that call removed

vars == <<now, ticks, nSessions, redis, inflight, last, issuedTo, touched, clean, revoked,
         sinceEmpty, prunedTo, resetDone>>

NoExpiry == 0 - 1
Plans == {"free", "pro", "premium"}

\* a call of a method on an AccessControlDAL constructed with emailOrIP
Call(op, pc, emailOrIP) ==
  [op |-> op, pc |-> pc, emailOrIP |-> emailOrIP, token |-> <<>>,
   sessionToken |-> None, plan |-> "", cutoff |-> 0, timestamp |-> 0,
   live |-> FALSE, existed |-> FALSE, wasRevoked |-> FALSE,
   readAt |-> 0, removed |-> 0, args |-> <<>>, results |-> <<>>,
   seen |-> <<>>, ret |-> None]

NoCall == Call("none", "done", <<>>)

Init ==
  /\ now = StartTime
  /\ ticks = 0
  /\ nSessions = 0
  /\ redis = <<>>
  /\ inflight = EmptyBag
  /\ last = NoCall
  /\ issuedTo = <<>>
  /\ touched = <<>>
  /\ clean = <<>>
  /\ revoked = {}
  /\ sinceEmpty = [i \in Identities |-> {}]
  /\ prunedTo = [i \in Identities |-> NoExpiry]
  /\ resetDone = <<>>

\* ------------------------------------------------------------- the store
\* a key is gone once the clock has passed its expiry time
KeyAlive(r, k, t) == r[k].expireAt = NoExpiry \/ t <= r[k].expireAt

Put(f, k, v) == [x \in DOMAIN f \cup {k} |-> IF x = k THEN v ELSE f[x]]
Drop(f, k) == [x \in DOMAIN f \ {k} |-> f[x]]

\* HMSET key field value ...: sets the fields, keeps the others and the TTL
hmset(r, key, obj) ==
  LET old == IF key \in DOMAIN r THEN r[key].value ELSE <<>>
      merged == [f \in DOMAIN old \cup DOMAIN obj |->
                   IF f \in DOMAIN obj THEN obj[f] ELSE old[f]]
  IN Put(r, key, [type |-> "hash", value |-> merged,
                  expireAt |-> IF key \in DOMAIN r THEN r[key].expireAt ELSE NoExpiry])

\* EXPIRE key seconds: no effect on a key that does not exist
expire(r, key, seconds, t) ==
  IF key \in DOMAIN r THEN [r EXCEPT ![key].expireAt = t + seconds * 1000] ELSE r

\* HGETALL key: null for a key that does not exist
hgetall(r, key) == IF key \in DOMAIN r THEN Some(r[key].value) ELSE None

\* the members of a sorted set (member -> score), ascending by score and,
\* for equal scores, by member
RECURSIVE Ascending(_)
Ascending(z) ==
  IF DOMAIN z = {} THEN <<>>
  ELSE LET m == CHOOSE x \in DOMAIN z :
                  \A y \in DOMAIN z : z[x] < z[y] \/ (z[x] = z[y] /\ x <= y)
       IN <<m>> \o Ascending(Drop(z, m))

ZSet(r, key) == IF key \in DOMAIN r THEN r[key].value ELSE <<>>

\* a sorted set that has lost its last member is no key any more
PutZSet(r, key, z) ==
  IF DOMAIN z = {} THEN Drop(r, key)
  ELSE Put(r, key, [type |-> "zset", value |-> z, expireAt |->
                      IF key \in DOMAIN r THEN r[key].expireAt ELSE NoExpiry])

\* ZADD key score member
zadd(r, key, member, score) == PutZSet(r, key, Put(ZSet(r, key), member, score))

\* ZREMRANGEBYSCORE key min max: both ends inclusive
zremrangebyscore(r, key, min, max) ==
  LET z == ZSet(r, key)
  IN PutZSet(r, key, [m \in {x \in DOMAIN z : ~(min <= z[x] /\ z[x] <= max)} |-> z[m]])

\* a rank counted from the end (-1 is the last member) as a rank from 0
Rank(i, n) == IF i < 0 THEN n + i ELSE i

\* ZRANGE key start stop: the members of ranks start..stop, ascending
zrange(r, key, start, stop) ==
  LET all == Ascending(ZSet(r, key))
      n == Len(all)
      lo == IF Rank(start, n) < 0 THEN 0 ELSE Rank(start, n)
      hi == IF Rank(stop, n) >= n THEN n - 1 ELSE Rank(stop, n)
  IN SubSeq(all, lo + 1, hi + 1)

\* ZREMRANGEBYRANK key start stop
zremrangebyrank(r, key, start, stop) ==
  LET z == ZSet(r, key)
      gone == {zrange(r, key, start, stop)[i] : i \in DOMAIN zrange(r, key, start, stop)}
  IN PutZSet(r, key, [m \in DOMAIN z \ gone |-> z[m]])

\* ------------------------------------------------------- call bookkeeping
Suspend(c) ==
  /\ inflight' = inflight (+) SetToBag({c})
  /\ last' = NoCall
Resume(c, d) ==
  /\ inflight' = (inflight (-) SetToBag({c})) (+) SetToBag({d})
  /\ last' = NoCall
ReturnAs(c, d, v) ==
  /\ inflight' = inflight (-) SetToBag({c})
  /\ last' = [d EXCEPT !.pc = "done", !.ret = v]
Return(c, v) == ReturnAs(c, c, v)
CanStart == BagCardinality(inflight) < MaxInflight
At(c, op, pc) == c.op = op /\ c.pc = pc

limiterVars == <<sinceEmpty, prunedTo, resetDone>>
sessionHistory == <<nSessions, issuedTo, touched, clean, revoked>>
history == sessionHistory

\* ------------------------------------------------------- session manager
ExpireSecondsMutant == 60 * 60
ExpireSeconds == 24 * 60 * 60

\* the token of line 19: md5.hash(`${this.emailOrIP}:${new Date()}`)
NewToken(emailOrIP, t) == md5hash(emailOrIP \o <<":">> \o DateString(t))

\* lines 21-26: the record of a new session
SessionTokenMutant(emailOrIP, t) ==
  [createdAt |-> t, isRevoked |-> TRUE, userEmail |-> emailOrIP]
SessionToken(emailOrIP, t) ==
  [createdAt |-> t, isRevoked |-> FALSE, userEmail |-> emailOrIP]

\* newSessionToken(), up to its first store call
newSessionToken(emailOrIP) ==
  /\ CanStart
  /\ IF isIP(emailOrIP)
       THEN /\ last' = Call("newSessionToken", "done", emailOrIP)
            /\ UNCHANGED <<inflight, nSessions>>
       ELSE /\ nSessions < MaxSessions
            /\ nSessions' = nSessions + 1
            /\ Suspend([Call("newSessionToken", "hmset", emailOrIP) EXCEPT
                          !.token = NewToken(emailOrIP, now),
                          !.sessionToken = Some(SessionToken(emailOrIP, now)),
                          !.live = TRUE])
  /\ UNCHANGED <<now, ticks, redis, limiterVars, issuedTo, touched, clean, revoked>>

\* await redis.hmset(`sessionToken:${token}`, sessionToken)
nstHmset(c) ==
  /\ At(c, "newSessionToken", "hmset")
  /\ redis' = hmset(redis, SessionKey(c.token), c.sessionToken[1])
  /\ Resume(c, [c EXCEPT !.pc = "expire"])
  /\ UNCHANGED <<now, ticks, limiterVars, history>>

\* await redis.expire(`sessionToken:${token}`, 24 * 60 * 60); return token
nstExpire(c) ==
  /\ At(c, "newSessionToken", "expire")
  /\ redis' = expire(redis, SessionKey(c.token), ExpireSeconds, now)
  /\ Return(c, Some(c.token))
  /\ issuedTo' = Put(issuedTo, c.token, c.emailOrIP)
  /\ touched' = IF SessionKey(c.token) \in DOMAIN redis
                  THEN Put(touched, c.token, now) ELSE touched
  /\ clean' = Put(clean, c.token,
                  c.live \/ (c.token \in DOMAIN clean /\ clean[c.token]))
  /\ UNCHANGED <<now, ticks, nSessions, limiterVars, revoked>>

\* x without the white space around it
Strip(x) == SubSeq(x, CHOOSE i \in 1..(Len(x) + 1) :
                        /\ \A j \in 1..(i - 1) : IsSpace(x[j])
                        /\ i <= Len(x) => ~IsSpace(x[i]),
                      CHOOSE i \in 0..Len(x) :
                        /\ \A j \in (i + 1)..Len(x) : IsSpace(x[j])
                        /\ i >= 1 => ~IsSpace(x[i]))

Day == 24 * Hour

\* the condition under which a validation of token string x must succeed:
\* x is, up to white space, a token that newSessionToken returned, there was
\* no revocation since that call began, and less than 24 h have passed since
\* the record's TTL was last set
Live(x) ==
  LET t == Strip(x)
  IN /\ t \in DOMAIN issuedTo
     /\ clean[t]
     /\ t \in DOMAIN touched
     /\ now < touched[t] + Day

\* lines 46-47: if (!sessionToken) return null; if (sessionToken.isRevoked) return null
RejectedInverted(sessionToken) == sessionToken = None \/ ~sessionToken[1].isRevoked
RejectedNoNull(sessionToken) == sessionToken # None /\ sessionToken[1].isRevoked
Rejected(sessionToken) == sessionToken = None \/ sessionToken[1].isRevoked

\* validateSessionToken(token) up to its second store call.  Nothing is read
\* before the hgetall, so the call begins at the moment the store answers it.
validateSessionToken(emailOrIP, token) ==
  /\ CanStart
  /\ LET c == [Call("validateSessionToken", "done", emailOrIP) EXCEPT
                 !.token = token]
         sessionToken == hgetall(redis, SessionKey(trim(token)))
         d == [c EXCEPT !.sessionToken = sessionToken,
                        !.live = Live(token),
                        !.existed = SessionKey(Strip(token)) \in DOMAIN redis,
                        !.wasRevoked = Strip(token) \in revoked]
     IN IF isIP(emailOrIP)
          THEN /\ last' = [d EXCEPT !.sessionToken = None]
               /\ UNCHANGED inflight
          ELSE IF Rejected(sessionToken)
                 THEN /\ last' = d
                      /\ UNCHANGED inflight
                 ELSE Suspend([d EXCEPT !.pc = "expire"])
  /\ UNCHANGED <<now, ticks, redis, limiterVars, history>>

\* line 50: return sessionToken.userEmail
userEmailMutant(emailOrIP, sessionToken) == emailOrIP
userEmail(emailOrIP, sessionToken) == sessionToken.userEmail

\* await redis.expire(`sessionToken:${token.trim()}`, 24 * 60 * 60);
\* return sessionToken.userEmail
vstExpire(c) ==
  /\ At(c, "validateSessionToken", "expire")
  /\ redis' = expire(redis, SessionKey(trim(c.token)), ExpireSeconds, now)
  /\ Return(c, Some(userEmail(c.emailOrIP, c.sessionToken[1])))
  /\ touched' = IF SessionKey(Strip(c.token)) \in DOMAIN redis
                  THEN Put(touched, Strip(c.token), now) ELSE touched
  /\ UNCHANGED <<now, ticks, nSessions, limiterVars, issuedTo, clean, revoked>>

\* ----------------------------------------------------------- rate limiter
\* the members of the timestamp set of identity i in store r
Stored(r, i) == IF LimitKey(i) \in DOMAIN r THEN DOMAIN r[LimitKey(i)].value ELSE {}

\* UserDAL.getPlan(): the plan service may answer with any plan
getPlan(emailOrIP) == Plans

\* lines 64-67: one hour for the free plan, three hours for every other plan
WindowMutant(p) == 60 * 60 * 1000
Window(p) == IF p = "free" THEN 60 * 60 * 1000 ELSE 3 * 60 * 60 * 1000

\* getRequestsTimeStamp() up to the answer of the plan service.  Nothing is
\* read before it, so the call begins at the moment the plan is read.
getRequestsTimeStamp(emailOrIP) ==
  /\ CanStart
  /\ \E p \in getPlan(emailOrIP) :
       Suspend([Call("getRequestsTimeStamp", "plan", emailOrIP) EXCEPT !.plan = p])
  /\ UNCHANGED <<now, ticks, redis, limiterVars, sessionHistory>>

\* the plan is compared and Date.now() is read for the range to remove
grtNow(c) ==
  /\ At(c, "getRequestsTimeStamp", "plan")
  /\ Resume(c, [c EXCEPT !.pc = "zremrangebyscore",
                         !.readAt = now,
                         !.cutoff = now - Window(c.plan)])
  /\ UNCHANGED <<now, ticks, redis, limiterVars, sessionHistory>>

\* await redis.zremrangebyscore(key, 0, Date.now() - window)
grtZremrangebyscore(c) ==
  /\ At(c, "getRequestsTimeStamp", "zremrangebyscore")
  /\ redis' = zremrangebyscore(redis, LimitKey(c.emailOrIP), 0, c.cutoff)
  /\ Resume(c, [c EXCEPT !.pc = "zrange"])
  /\ prunedTo' = [prunedTo EXCEPT ![c.emailOrIP] =
                    IF c.cutoff > @ THEN c.cutoff ELSE @]
  /\ UNCHANGED <<now, ticks, sinceEmpty, resetDone, sessionHistory>>

\* return await redis.zrange(key, 0, -1)
grtZrange(c) ==
  /\ At(c, "getRequestsTimeStamp", "zrange")
  /\ Return(c, Some(zrange(redis, LimitKey(c.emailOrIP), 0, 0 - 1)))
  /\ UNCHANGED <<now, ticks, redis, limiterVars, sessionHistory>>

\* line 81: member: timestamp
memberMutant(timestamp) == 0
member(timestamp) == timestamp

\* line 82: score: timestamp
scoreMutant(timestamp) == 0
score(timestamp) == timestamp

\* line 101: the last rank removed, -1 is the last member
ResetStopMutant == 0 - 2
ResetStop == 0 - 1

\* newRequest() up to its store call: timestamp = Date.now()
newRequest(emailOrIP) ==
  /\ CanStart
  /\ Suspend([Call("newRequest", "zadd", emailOrIP) EXCEPT !.timestamp = now])
  /\ UNCHANGED <<now, ticks, redis, limiterVars, sessionHistory>>

\* a newRequest that enforces a limit of two members
nrZaddMutant(c) ==
  /\ At(c, "newRequest", "zadd")
  /\ Cardinality(Stored(redis, c.emailOrIP)) < 2
  /\ redis' = zadd(redis, LimitKey(c.emailOrIP), member(c.timestamp), score(c.timestamp))
  /\ Return(c, Some(c.timestamp))
  /\ sinceEmpty' = [sinceEmpty EXCEPT ![c.emailOrIP] = @ \cup {c.timestamp}]
  /\ UNCHANGED <<now, ticks, prunedTo, resetDone, sessionHistory>>

\* await redis.zadd(key, {member: timestamp, score: timestamp}); return timestamp
nrZadd(c) ==
  /\ At(c, "newRequest", "zadd")
  /\ redis' = zadd(redis, LimitKey(c.emailOrIP), member(c.timestamp), score(c.timestamp))
  /\ Return(c, Some(c.timestamp))
  /\ sinceEmpty' = [sinceEmpty EXCEPT ![c.emailOrIP] = @ \cup {c.timestamp}]
  /\ UNCHANGED <<now, ticks, prunedTo, resetDone, sessionHistory>>

\* resetLimit() up to its second store call:
\* await redis.zremrangebyrank(key, 0, -1)
resetLimit(emailOrIP) ==
  /\ CanStart
  /\ redis' = zremrangebyrank(redis, LimitKey(emailOrIP), 0, ResetStop)
  /\ Suspend([Call("resetLimit", "zrange", emailOrIP) EXCEPT
                !.removed = Cardinality(DOMAIN ZSet(redis, LimitKey(emailOrIP)))])
  /\ sinceEmpty' = [sinceEmpty EXCEPT ![emailOrIP] = {}]
  /\ prunedTo' = [prunedTo EXCEPT ![emailOrIP] = NoExpiry]
  /\ UNCHANGED <<now, ticks, resetDone, sessionHistory>>

\* return await redis.zrange(key, 0, -1)
rlZrange(c) ==
  /\ At(c, "resetLimit", "zrange")
  /\ Return(c, Some(zrange(redis, LimitKey(c.emailOrIP), 0, 0 - 1)))
  /\ resetDone' = Put(resetDone, c.emailOrIP, c.removed)
  /\ UNCHANGED <<now, ticks, redis, sinceEmpty, prunedTo, sessionHistory>>

\* line 93: pipeline.zrange(`limit:${emailOrIP}`, 0, -1)
pipelineZrangeMutant(r, emailOrIP) == zrange(r, LimitKey(emailOrIP), 1, 0 - 1)
pipelineZrange(r, emailOrIP) == zrange(r, LimitKey(emailOrIP), 0, 0 - 1)

\* static getRequestsTimeStampsOf(...emailOrIP): the pipeline is built from
\* the arguments in their order and sent; the store runs its commands one
\* after the other, and commands of other calls may run between two of them.
\* This step runs the first command (or returns [] for no argument).
getRequestsTimeStampsOf(args) ==
  /\ CanStart
  /\ IF args = <<>>
       THEN /\ last' = [Call("getRequestsTimeStampsOf", "done", <<>>) EXCEPT
                          !.ret = Some(<<>>)]
            /\ UNCHANGED inflight
       ELSE LET c == [Call("getRequestsTimeStampsOf", "exec", <<>>) EXCEPT
                        !.args = args,
                        !.results = <<pipelineZrange(redis, args[1])>>,
                        !.seen = <<Stored(redis, args[1])>>]
            IN IF Len(args) = 1
                 THEN /\ last' = [c EXCEPT !.pc = "done", !.ret = Some(c.results)]
                      /\ UNCHANGED inflight
                 ELSE Suspend(c)
  /\ UNCHANGED <<now, ticks, redis, limiterVars, sessionHistory>>

\* the next command of the pipeline; after the last one, return await pipeline.exec()
gtsoZrange(c) ==
  /\ At(c, "getRequestsTimeStampsOf", "exec")
  /\ LET j == Len(c.results) + 1
         d == [c EXCEPT !.results = Append(@, pipelineZrange(redis, c.args[j])),
                        !.seen = Append(@, Stored(redis, c.args[j]))]
     IN IF j = Len(c.args) THEN ReturnAs(c, d, Some(d.results)) ELSE Resume(c, d)
  /\ UNCHANGED <<now, ticks, redis, limiterVars, sessionHistory>>

\* ------------------------------------------------------------ environment
\* an operator marks a session revoked directly in the store
Revoke(token) ==
  /\ SessionKey(token) \in DOMAIN redis
  /\ ~redis[SessionKey(token)].value.isRevoked
  /\ redis' = [redis EXCEPT ![SessionKey(token)].value =
                 [f \in DOMAIN @ |-> IF f = "isRevoked" THEN TRUE ELSE @[f]]]
  /\ clean' = [t \in DOMAIN clean |-> clean[t] /\ t # token]
  /\ LET Hit(c) == c.op = "newSessionToken" /\ c.token = token
         Mark(c) == IF Hit(c) THEN [c EXCEPT !.live = FALSE] ELSE c
         marked == {Mark(c) : c \in DOMAIN inflight}
         Count(d) == (IF d \in DOMAIN inflight THEN inflight[d] ELSE 0)
                     + (IF Hit(d) /\ [d EXCEPT !.live = TRUE] \in DOMAIN inflight
                          THEN inflight[[d EXCEPT !.live = TRUE]] ELSE 0)
     IN inflight' = [d \in marked |-> Count(d)]
  /\ last' = NoCall
  /\ revoked' = revoked \cup {token}
  /\ UNCHANGED <<now, ticks, nSessions, limiterVars, issuedTo, touched>>

\* time passes; the store drops the keys whose expiry time has passed
Tick(d) ==
  /\ ticks < MaxTicks
  /\ ticks' = ticks + 1
  /\ now' = now + d
  /\ redis' = [k \in {x \in DOMAIN redis : KeyAlive(redis, x, now + d)} |-> redis[k]]
  /\ last' = NoCall
  /\ UNCHANGED <<limiterVars, inflight, history>>

\* ------------------------------------------------------------- behaviours
SessionSteps == {16 * Hour}

\* token strings a caller may pass: issued ones, padded ones, and others
StoredTokens == {SubSeq(k, Len(SessionPrefix) + 1, Len(k)) :
                   k \in {x \in DOMAIN redis : redis[x].type = "hash"}}
KnownTokens == DOMAIN issuedTo \cup StoredTokens
TokenArgs == KnownTokens \cup {<<" ">> \o t \o <<"\n">> : t \in KnownTokens}
               \cup {<<"z">>, <<" ">>}

\* the code treats every email identity alike, so one of them issues tokens
\* and both validate them
Issuers == {EmailA, IPAddr}
Validators == Identities

NextSession ==
  \/ \E e \in Issuers : newSessionToken(e)
  \/ \E e \in Validators : \E x \in TokenArgs : validateSessionToken(e, x)
  \/ \E c \in DOMAIN inflight : nstHmset(c)
  \/ \E c \in DOMAIN inflight : nstExpire(c)
  \/ \E c \in DOMAIN inflight : vstExpire(c)
  \/ \E t \in StoredTokens : Revoke(t)
  \/ \E d \in SessionSteps : Tick(d)

SpecSession == Init /\ [][NextSession]_vars

LimiterSteps == {Hour}
\* the callers of the rate limiter act for one identity
Limited == {EmailA}

NextLimiter ==
  \/ \E e \in Limited : getRequestsTimeStamp(e)
  \/ \E c \in DOMAIN inflight : grtNow(c)
  \/ \E c \in DOMAIN inflight : grtZremrangebyscore(c)
  \/ \E c \in DOMAIN inflight : grtZrange(c)
  \/ \E e \in Limited : newRequest(e)
  \/ \E c \in DOMAIN inflight : nrZadd(c)
  \/ \E e \in Limited : resetLimit(e)
  \/ \E c \in DOMAIN inflight : rlZrange(c)
  \/ \E d \in LimiterSteps : Tick(d)

SpecLimiter == Init /\ [][NextLimiter]_vars

\* the whole component: the six operations, two identities, no revocation.
\* The interleavings of the instance methods with each other are those of
\* SpecSession and SpecLimiter; here an instance method starts when no other
\* call is suspended, except that newRequest also starts during a bulk read.
\* Both identities insert; the email identity also reads and resets.
AllSteps == {25 * Hour}
Callers == {EmailA, IPAddr}
Readers == {EmailA}
BulkArgs == {<<>>, <<EmailA>>, <<EmailA, IPAddr>>, <<IPAddr, EmailA>>, <<EmailA, EmailA>>}
Idle == inflight = EmptyBag
Reading == \A c \in DOMAIN inflight : c.op = "getRequestsTimeStampsOf"

NextAll ==
  \/ \E e \in Callers : Idle /\ newSessionToken(e)
  \/ \E e \in Callers : \E x \in TokenArgs : Idle /\ validateSessionToken(e, x)
  \/ \E c \in DOMAIN inflight : nstHmset(c)
  \/ \E c \in DOMAIN inflight : nstExpire(c)
  \/ \E c \in DOMAIN inflight : vstExpire(c)
  \/ \E e \in Readers : Idle /\ getRequestsTimeStamp(e)
  \/ \E c \in DOMAIN inflight : grtNow(c)
  \/ \E c \in DOMAIN inflight : grtZremrangebyscore(c)
  \/ \E c \in DOMAIN inflight : grtZrange(c)
  \/ \E e \in Callers : Reading /\ newRequest(e)
  \/ \E c \in DOMAIN inflight : nrZadd(c)
  \/ \E e \in Readers : Idle /\ resetLimit(e)
  \/ \E c \in DOMAIN inflight : rlZrange(c)
  \/ \E a \in BulkArgs : Idle /\ getRequestsTimeStampsOf(a)
  \/ \E c \in DOMAIN inflight : gtsoZrange(c)
  \/ \E d \in AllSteps : ticks < AllTicks /\ Tick(d)

SpecAll == Init /\ [][NextAll]_vars

\* ================================================================= claims
HasAt(s) == \E i \in DOMAIN s : s[i] = "@"
Returned(op) == last.op = op /\ last.pc = "done"
SessionKeys == {k \in DOMAIN redis : redis[k].type = "hash"}

\* C1: a validation by email identity E of a token that E's newSessionToken
\* returned, made less than 24 h after the record's TTL was last set and with
\* no revocation in between, returns E.
C1_ValidateIssuedToken ==
  ( /\ Returned("validateSessionToken")
    /\ HasAt(last.emailOrIP)
    /\ last.live
    /\ issuedTo[Strip(last.token)] = last.emailOrIP )
  => last.ret = Some(last.emailOrIP)

C1_Witness ==
  /\ Returned("validateSessionToken")
  /\ last.emailOrIP = EmailA
  /\ last.live
  /\ last.token # Strip(last.token)
  /\ last.ret = Some(EmailA)
  /\ ticks >= 1

\* C2: for an IP identity newSessionToken and validateSessionToken return
\* nothing for every argument, a live token of an email identity included,
\* and leave the store as it is; every session record belongs to an email.
C2_State ==
  /\ ( /\ last.op \in {"newSessionToken", "validateSessionToken"}
       /\ ~HasAt(last.emailOrIP) ) => last.ret = None
  /\ \A k \in SessionKeys : HasAt(redis[k].value.userEmail)

C2_Step ==
  ( /\ last'.op \in {"newSessionToken", "validateSessionToken"}
    /\ ~HasAt(last'.emailOrIP) ) => redis' = redis

C2_IPHasNoSession == [](C2_State) /\ [][C2_Step]_vars

C2_Witness ==
  /\ Returned("validateSessionToken")
  /\ ~HasAt(last.emailOrIP)
  /\ last.live
  /\ SessionKey(Strip(last.token)) \in DOMAIN redis
  /\ last.ret = None

\* C3: once a record has been marked revoked in the store, every later
\* validateSessionToken of that token returns nothing at its first store call
\* (so it never reaches the call that refreshes the TTL).
ValidateCalls == {c \in DOMAIN inflight \cup {last} : c.op = "validateSessionToken"}

C3_RevokedStaysRejected ==
  \A c \in ValidateCalls :
    c.wasRevoked => (c.pc = "done" /\ c.ret = None)

\* C4: validateSessionToken of a token that has no record returns nothing at
\* its first store call and leaves the store unchanged, for every identity
\* and every token string.
C4_State == \A c \in ValidateCalls : ~c.existed => (c.pc = "done" /\ c.ret = None)

C4_Step ==
  (last'.op = "validateSessionToken" /\ ~last'.existed) => redis' = redis

C4_UnknownTokenRejected == [](C4_State) /\ [][C4_Step]_vars

C4_Witness ==
  /\ Returned("validateSessionToken")
  /\ HasAt(last.emailOrIP)
  /\ Strip(last.token) \in DOMAIN issuedTo
  /\ ~last.existed
  /\ last.ret = None

\* C5: every successful validateSessionToken(t) leaves the record of t in the
\* store with a TTL of 86400 s counted from that moment, and a record whose
\* TTL was last set more than 24 h ago is not in the store.
C5_SlidingExpiry ==
  /\ ( /\ Returned("validateSessionToken")
       /\ last.ret # None )
     => /\ SessionKey(Strip(last.token)) \in DOMAIN redis
        /\ redis[SessionKey(Strip(last.token))].expireAt = now + Day
  /\ \A t \in DOMAIN touched :
       now > touched[t] + Day => SessionKey(t) \notin DOMAIN redis

\* C6: every session record in the store has an expiry, at most 86400 s away.
C6_EveryRecordHasTTL ==
  \A k \in SessionKeys :
    /\ redis[k].expireAt # NoExpiry
    /\ redis[k].expireAt <= now + 86400 * 1000

\* ------------------------------------------------------ rate limiter claims
Elements(q) == {q[j] : j \in DOMAIN q}
StrictlyAscending(q) == \A j \in DOMAIN q : \A k \in DOMAIN q : j < k => q[j] < q[k]
\* the sequence q lists the set S in ascending order
Lists(q, S) == Elements(q) = S /\ Len(q) = Cardinality(S) /\ StrictlyAscending(q)
ClaimWindow(p) == IF p = "free" THEN Hour ELSE 3 * Hour

\* C7: getRequestsTimeStamp returns, in ascending order, exactly the
\* timestamps that newRequest inserted since the set was last empty, provided
\* none of them is as old as a window that has been pruned since.
C7_RequestsReadBack ==
  ( /\ Returned("getRequestsTimeStamp")
    /\ \A ts \in sinceEmpty[last.emailOrIP] : ts > prunedTo[last.emailOrIP] )
  => /\ last.ret # None
     /\ Lists(last.ret[1], sinceEmpty[last.emailOrIP])

C7_Witness ==
  /\ Returned("getRequestsTimeStamp")
  /\ Cardinality(sinceEmpty[last.emailOrIP]) >= 2
  /\ \A ts \in sinceEmpty[last.emailOrIP] : ts > prunedTo[last.emailOrIP]
  /\ prunedTo[last.emailOrIP] > StartTime - 3 * Hour
  /\ Len(last.ret[1]) >= 2

\* C8: the prune of getRequestsTimeStamp removes exactly the members whose
\* score is in [0, now - W], now being the time the call read and W one hour
\* for the free plan and three hours for every other plan.
C8_Step ==
  \A c \in DOMAIN inflight :
    grtZremrangebyscore(c) =>
      LET z == ZSet(redis, LimitKey(c.emailOrIP))
      IN Stored(redis', c.emailOrIP) =
           {m \in DOMAIN z : ~(0 <= z[m] /\ z[m] <= c.readAt - ClaimWindow(c.plan))}

C9_ResetReturnsEmpty == Returned("resetLimit") => last.ret = Some(<<>>)

\* C10: once a resetLimit of an identity has returned, its set holds only
\* timestamps inserted after the latest remove-all step, and
\* getRequestsTimeStamp returns only such timestamps: the empty sequence when
\* there are none.
C10_ResetClears ==
  \A i \in DOMAIN resetDone :
    /\ Stored(redis, i) \subseteq sinceEmpty[i]
    /\ (Returned("getRequestsTimeStamp") /\ last.emailOrIP = i) =>
         /\ last.ret # None
         /\ Elements(last.ret[1]) \subseteq sinceEmpty[i]
         /\ sinceEmpty[i] = {} => last.ret = Some(<<>>)

C10_Witness ==
  /\ Returned("getRequestsTimeStamp")
  /\ last.emailOrIP \in DOMAIN resetDone
  /\ resetDone[last.emailOrIP] >= 2
  /\ sinceEmpty[last.emailOrIP] = {}
  /\ last.ret = Some(<<>>)

\* ------------------------------------------------------- bulk read claims
\* C11: getRequestsTimeStampsOf(I1, ..., Ik) returns k sequences, the j-th
\* listing in ascending order every member stored for Ij when the store
\* answers the j-th command, whatever its age; no step of it changes a
\* timestamp set or a session record.
C11_State ==
  Returned("getRequestsTimeStampsOf") =>
    /\ last.ret # None
    /\ Len(last.ret[1]) = Len(last.args)
    /\ \A j \in DOMAIN last.args : Lists(last.ret[1][j], last.seen[j])

C11_Step ==
  /\ \A a \in BulkArgs : getRequestsTimeStampsOf(a) => redis' = redis
  /\ \A c \in DOMAIN inflight : gtsoZrange(c) => redis' = redis

C11_BulkReadIsRaw == [](C11_State) /\ [][C11_Step]_vars

\* a bulk read of two identities, made 25 h after the inserts, with a
\* session record in the store
C11_Witness ==
  /\ Returned("getRequestsTimeStampsOf")
  /\ last.args = <<IPAddr, EmailA>>
  /\ last.ret[1][1] # <<>>
  /\ last.ret[1][2] # <<>>
  /\ last.ret[1][1] # last.ret[1][2]
  /\ last.ret[1][1][1] <= now - 3 * Hour
  /\ SessionKeys # {}

\* --------------------------------------------------- concurrent prune claims
Pruning(i) == {c \in DOMAIN inflight :
                 At(c, "getRequestsTimeStamp", "zremrangebyscore") /\ c.emailOrIP = i}

\* C12: with getRequestsTimeStamp and newRequest calls of one identity
\* interleaved at every store call, a prune removes only members that are at
\* least as old as the window of the plan its call read; every member
\* inserted since the set was last cleared and newer than the highest bound
\* pruned is still stored; a prune whose bound is not above an earlier one
\* changes nothing when nothing older was inserted since; and two pending
\* prunes leave, in either order, the set that the later-reading one leaves.
C12_State ==
  \A i \in Identities :
    /\ {m \in sinceEmpty[i] : m > prunedTo[i]} \subseteq Stored(redis, i)
    /\ \A c \in Pruning(i) : \A d \in Pruning(i) :
         c.cutoff <= d.cutoff =>
           LET k == LimitKey(i)
               one == zremrangebyscore(redis, k, 0, d.cutoff)
           IN /\ zremrangebyscore(zremrangebyscore(redis, k, 0, c.cutoff), k, 0, d.cutoff) = one
              /\ zremrangebyscore(one, k, 0, c.cutoff) = one

C12_Step ==
  \A c \in DOMAIN inflight :
    grtZremrangebyscore(c) =>
      LET i == c.emailOrIP
          gone == Stored(redis, i) \ Stored(redis', i)
      IN /\ Stored(redis', i) \subseteq Stored(redis, i)
         /\ \A m \in gone : m <= now - ClaimWindow(c.plan)
         /\ ( /\ c.cutoff <= prunedTo[i]
              /\ \A m \in Stored(redis, i) : m > prunedTo[i] ) => redis' = redis

C13_State ==
  /\ Returned("newRequest") =>
       /\ last.ret # None
       /\ last.ret[1] \in Stored(redis, last.emailOrIP)
  /\ (last.op \in {"getRequestsTimeStamp", "resetLimit"} /\ last.pc = "done") =>
       /\ last.ret # None
       /\ StrictlyAscending(last.ret[1])

C13_Step ==
  /\ \A c \in DOMAIN inflight :
       nrZadd(c) =>
         /\ last'.ret = Some(c.timestamp)
         /\ Stored(redis', c.emailOrIP) = Stored(redis, c.emailOrIP) \cup {c.timestamp}
         /\ Cardinality(Stored(redis', c.emailOrIP))
              <= Cardinality(Stored(redis, c.emailOrIP)) + 1
         /\ c.timestamp \in Stored(redis, c.emailOrIP) => redis' = redis
  /\ \A i \in Identities :
       \/ Stored(redis, i) \subseteq Stored(redis', i)
       \/ \E c \in DOMAIN inflight : c.emailOrIP = i /\ grtZremrangebyscore(c)
       \/ resetLimit(i)

C13_ConcurrentInserts == [](C13_State) /\ [][C13_Step]_vars

\* one of two calls that read the same millisecond has returned, the other
\* is about to insert, and the set holds an older member as well
C13_Witness ==
  /\ Returned("newRequest")
  /\ \E d \in DOMAIN inflight :
       /\ At(d, "newRequest", "zadd")
       /\ d.emailOrIP = last.emailOrIP
       /\ d.timestamp = last.ret[1]
  /\ Cardinality(Stored(redis, last.emailOrIP)) >= 2

\* C14: newRequest can always start and always completes, whatever the size
\* of the set; its insert returns the timestamp, adds it, and leaves every
\* member stored before in place, so the set grows by one for each call at
\* a timestamp not yet stored.
C14_State ==
  /\ \A e \in Limited : CanStart => ENABLED newRequest(e)
  /\ \A c \in DOMAIN inflight : At(c, "newRequest", "zadd") => ENABLED nrZadd(c)
  /\ Returned("newRequest") => last.ret = Some(last.timestamp)

C14_Step ==
  \A c \in DOMAIN inflight :
    nrZadd(c) =>
      LET before == Stored(redis, c.emailOrIP)
          after == Stored(redis', c.emailOrIP)
      IN /\ before \subseteq after
         /\ c.timestamp \in after
         /\ c.timestamp \notin before => Cardinality(after) = Cardinality(before) + 1
         /\ \A k \in DOMAIN redis : k # LimitKey(c.emailOrIP) =>
              (k \in DOMAIN redis' /\ redis'[k] = redis[k])

C14_NeverRejects == [](C14_State) /\ [][C14_Step]_vars

\* an insert into a set that held a member for every earlier clock value
C14_Witness ==
  /\ Returned("newRequest")
  /\ ticks = MaxTicks
  /\ last.ret = Some(now)
  /\ Cardinality(Stored(redis, last.emailOrIP)) = MaxTicks + 1

\* C15: the sequence getRequestsTimeStamp returns is strictly ascending and
\* each of its elements is greater than T - W, T being the clock value the
\* call read for its prune and W the window of the plan the call read.
C15_ReadIsFresh ==
  Returned("getRequestsTimeStamp") =>
    /\ last.ret # None
    /\ StrictlyAscending(last.ret[1])
    /\ \A j \in DOMAIN last.ret[1] :
         last.ret[1][j] > last.readAt - ClaimWindow(last.plan)

\* ------------------------------------------------ whole-component claims
\* the record of the token of the returned validation expired: its TTL was
\* last set more than 24 h ago and the store had no record for it
Expired ==
  /\ Strip(last.token) \in DOMAIN touched
  /\ now > touched[Strip(last.token)] + Day
  /\ ~last.existed

NotRevoked == \A k \in SessionKeys : redis[k].value.isRevoked = FALSE

\* C16 as stated: with the six operations alone no record is ever revoked,
\* and a validation of an issued token returns nothing only when the record
\* has expired.
C16_AsStated ==
  /\ NotRevoked
  /\ ( /\ Returned("validateSessionToken")
       /\ Strip(last.token) \in DOMAIN issuedTo
       /\ last.ret = None ) => Expired

\* C16: with the six operations alone no record is ever revoked, and a
\* validation of an issued token by an instance of an email identity
\* returns nothing only when the record has expired.
C16_NeverRevoked ==
  /\ NotRevoked
  /\ ( /\ Returned("validateSessionToken")
       /\ HasAt(last.emailOrIP)
       /\ Strip(last.token) \in DOMAIN issuedTo
       /\ last.ret = None ) => Expired

\* an email identity validates an expired token while a later token is live
\* and requests have been recorded
C16_Witness ==
  /\ Returned("validateSessionToken")
  /\ HasAt(last.emailOrIP)
  /\ Strip(last.token) \in DOMAIN issuedTo
  /\ last.ret = None
  /\ SessionKeys # {}
  /\ Stored(redis, EmailA) # {}

\* the identities whose newSessionToken wrote the record of token t
Creators(t) ==
  {issuedTo[x] : x \in {t} \cap DOMAIN issuedTo}
    \cup {c.emailOrIP : c \in {d \in DOMAIN inflight :
                                 At(d, "newSessionToken", "expire") /\ d.token = t}}

\* C17: a non-empty result of validateSessionToken(t) is the email of the
\* identity whose newSessionToken wrote the record of t, whichever identity
\* the validating instance was constructed with.
C17_ResultIsIssuer ==
  ( /\ Returned("validateSessionToken")
    /\ last.ret # None )
  => /\ Creators(Strip(last.token)) # {}
     /\ \A e \in Creators(Strip(last.token)) : last.ret = Some(e)

\* an instance of email b validates a live token issued to email a
C17_Witness ==
  /\ Returned("validateSessionToken")
  /\ last.emailOrIP = EmailB
  /\ last.live
  /\ issuedTo[Strip(last.token)] = EmailA
  /\ last.ret = Some(EmailA)

\* the key of the timestamp set of identity i
ClaimLimitKey(i) == <<"l", "i", "m", "i", "t", ":">> \o i

\* every key but that of identity i is left as it is
OnlyLimitOf(i) ==
  \A k \in (DOMAIN redis \cup DOMAIN redis') \ {ClaimLimitKey(i)} :
    /\ k \in DOMAIN redis
    /\ k \in DOMAIN redis'
    /\ redis'[k] = redis[k]

\* every timestamp set is left as it is and none is created
NoLimitTouched ==
  /\ \A k \in DOMAIN redis : redis[k].type = "zset" =>
       (k \in DOMAIN redis' /\ redis'[k] = redis[k])
  /\ \A k \in DOMAIN redis' : redis'[k].type = "zset" => k \in DOMAIN redis

\* the calls that took a step: the one that returned, or the one that is
\* newly suspended
Copies(bag, c) == IF c \in DOMAIN bag THEN bag[c] ELSE 0
Acting ==
  {c \in {last'} : c.op # "none"}
    \cup {c \in DOMAIN inflight' : Copies(inflight', c) > Copies(inflight, c)}

\* C18: a step of getRequestsTimeStamp, newRequest or resetLimit on identity
\* I changes no key but limit:I; a step of newSessionToken or
\* validateSessionToken changes no timestamp set.
C18_Step ==
  \A c \in Acting :
    /\ c.op \in {"getRequestsTimeStamp", "newRequest", "resetLimit"}
         => OnlyLimitOf(c.emailOrIP)
    /\ c.op \in {"newSessionToken", "validateSessionToken"} => NoLimitTouched

C18_Isolation == [][C18_Step]_vars

\* a reset of the email identity removed a member while the IP identity has
\* members and a session record exists
C18_Witness ==
  /\ Returned("resetLimit")
  /\ last.emailOrIP = EmailA
  /\ last.removed >= 1
  /\ Stored(redis, IPAddr) # {}
  /\ Stored(redis, EmailA) = {}
  /\ SessionKeys # {}

====
